---- MODULE Spec2Model ----
(***************************************************************************)
(* Model of miband_res_hack.py: the fixed-layout struct codec (Parser and  *)
(* its subclasses), the bit packer (Bitwriter) and unpacker (bitwalker,    *)
(* chunkwise, bits_to_int), the palette image codec                        *)
(* (convert_palette_image_to_png / convert_png_image_to_palette_image)     *)
(* and the container orchestration (parse_res_file, write_resource,        *)
(* repack_res_file).                                                       *)
(*                                                                         *)
(* Bytes are naturals 0..255, byte strings are sequences of bytes.         *)
(* Native struct layouts ('H', 'I') are taken little-endian, as on the     *)
(* x86/ARM hosts the tool runs on.  The PNG file format itself belongs to  *)
(* the PIL library; an interchange image is modelled by what the script    *)
(* reads from and writes to it: its size, its pixel indices and its flat   *)
(* RGB palette.                                                            *)
(***************************************************************************)
EXTENDS Integers, Sequences, FiniteSets, TLC

VARIABLES
    \* ---- Bitwriter exercise (one Bitwriter object and its reader) ----
    bits,        \* the `bits` argument passed to every Bitwriter.add
    added,       \* the numbers passed to Bitwriter.add so far
    bitwriter,   \* the Bitwriter object: bytes, last_byte, pos
    built,       \* the byte string returned by Bitwriter.build
    unpacked,    \* the indices read back from `built`
    bphase,      \* "adding" | "built" | "unpacked" | "idle"
    \* ---- palette image codec exercise (one resource) ----
    image_info,  \* the original ImageHeader
    image_data,  \* the resource payload after the header
    im,          \* the interchange image (PNG contents)
    encoded,     \* result of convert_png_image_to_palette_image
    cphase,      \* "raw" | "decoded" | "edited" | "encoded" | "failed" | "idle"
    \* ---- container file processing ----
    stream,      \* the whole input file (buffer contents)
    offset,      \* read position of buffer
    header,      \* HeaderContainer
    toc,         \* list of TOCEntry (abs_offset values)
    prev_abs_offset,
    resources,   \* list of Resource
    files,       \* output directory: file id -> interchange image
    outfile,     \* bytes written to the .new.res file
    command,     \* sys.argv[1]
    cursor,      \* index of the resource the command's loop is at
    runs,        \* how many times the script has been started
    pc           \* position of the script

bitVars   == <<bits, added, bitwriter, built, unpacked, bphase>>
codecVars == <<image_info, image_data, im, encoded, cphase>>
fileVars  == <<stream, offset, header, toc, prev_abs_offset, resources, files, outfile,
               command, cursor, runs, pc>>
vars      == <<bits, added, bitwriter, built, unpacked, bphase,
               image_info, image_data, im, encoded, cphase,
               stream, offset, header, toc, prev_abs_offset, resources, files, outfile,
               command, cursor, runs, pc>>

(***************************************************************************)
(* Generic helpers                                                         *)
(***************************************************************************)
RECURSIVE Pow2(_)
Pow2(n) == IF n = 0 THEN 1 ELSE 2 * Pow2(n - 1)

Min(a, b) == IF a < b THEN a ELSE b

\* seq[:n] of Python
Take(s, n) == SubSeq(s, 1, Min(n, Len(s)))

\* seq[n:] of Python
Drop(s, n) == SubSeq(s, Min(n, Len(s)) + 1, Len(s))

RECURSIVE Flatten(_)
Flatten(ss) == IF ss = <<>> THEN <<>> ELSE Head(ss) \o Flatten(Tail(ss))

\* Python's a | b on naturals
RECURSIVE BitOr(_, _)
BitOr(a, b) ==
    IF a = 0 THEN b
    ELSE IF b = 0 THEN a
    ELSE (IF (a % 2 = 1) \/ (b % 2 = 1) THEN 1 ELSE 0) + 2 * BitOr(a \div 2, b \div 2)

CeilDiv(a, b) == (a + b - 1) \div b

(***************************************************************************)
(* Bitwriter                                                               *)
(***************************************************************************)
None == -1

\* Bitwriter.__init__
BitwriterInit == [bytes |-> <<>>, last_byte |-> None, pos |-> 0]

\* Bitwriter.add
BitwriterAdd(self, number, nbits) ==
    LET lb  == IF self.last_byte = None THEN 0 ELSE self.last_byte
        lb2 == BitOr(lb * Pow2(nbits), number)
        p2  == self.pos + nbits
    IN  IF p2 >= 8
        THEN [bytes |-> Append(self.bytes, lb2), last_byte |-> 0, pos |-> 0]
        ELSE [bytes |-> self.bytes, last_byte |-> lb2, pos |-> p2]

\* Bitwriter.build: the list handed to array('B', ...).tobytes()
BitwriterBuild(self) ==
    IF self.last_byte # None
    THEN Append(self.bytes, self.last_byte * Pow2(8 - self.pos))
    ELSE self.bytes

\* array('B', values) raises OverflowError for a value above 255
ArrayOverflows(values) == \E i \in 1..Len(values) : values[i] > 255

(***************************************************************************)
(* bitwalker / chunkwise / bits_to_int                                     *)
(***************************************************************************)
\* the bits of one byte, bitpos 7 down to 0
ByteBits(byte) == [k \in 1..8 |-> (byte \div Pow2(8 - k)) % 2]

\* bitwalker: all bits of byte_data, most significant bit of each byte first
bitwalker(byte_data) == Flatten([i \in 1..Len(byte_data) |-> ByteBits(byte_data[i])])

\* chunkwise: consecutive chunks of `count` items, a shorter last chunk if items remain
chunkwise(count, items) ==
    [c \in 1..CeilDiv(Len(items), count) |->
        SubSeq(items, (c - 1) * count + 1, Min(c * count, Len(items)))]

\* bits_to_int read least significant bit first (mutation)
bits_to_int_lsb_first(bs) ==
    LET RECURSIVE Acc(_)
        Acc(k) == IF k > Len(bs) THEN 0 ELSE bs[k] * Pow2(k - 1) + Acc(k + 1)
    IN  Acc(1)

\* bits_to_int: the first bit is the most significant
bits_to_int(bs) ==
    LET RECURSIVE Acc(_)
        Acc(k) == IF k > Len(bs) THEN 0 ELSE bs[k] * Pow2(Len(bs) - k) + Acc(k + 1)
    IN  Acc(1)

\* the row loop of convert_palette_image_to_png: one palette index per chunk,
\* stopping once x > width - 1
UnpackRow(row_data, bits_per_pixel, width) ==
    LET chunks == chunkwise(bits_per_pixel, bitwalker(row_data))
    IN  [x \in 1..Min(width, Len(chunks)) |-> bits_to_int(chunks[x])]

(***************************************************************************)
(* Parser: fixed-layout records                                            *)
(***************************************************************************)
\* the byte widths of the `format` lists
HeaderFormat      == <<5, 1, 10, 4>>
TOCFormat         == <<4>>
ImageHeaderFormat == <<4, 2, 2, 2, 2, 2, 2>>
PaletteFormat     == <<1, 1, 1, 1>>

RECURSIVE SumSeq(_)
SumSeq(s) == IF s = <<>> THEN 0 ELSE Head(s) + SumSeq(Tail(s))

\* Parser.get_total_bytes
get_total_bytes(format) == SumSeq(format)

\* fh.read(size): up to `size` bytes from the position, everything left when
\* size is negative
fh_read(data, position, size) ==
    IF size < 0 THEN Drop(data, position) ELSE Take(Drop(data, position), size)

\* Parser._read_buffer raises when fewer than total_bytes were read
read_buffer_raises(format, all_data) == Len(all_data) # get_total_bytes(format)

\* the slice data[offset:offset + size] of field f (1-based) in parse_data
FieldPart(format, data, f) ==
    SubSeq(data, SumSeq(SubSeq(format, 1, f - 1)) + 1,
           Min(SumSeq(SubSeq(format, 1, f)), Len(data)))

\* Parser.parse_data never raising on a short part (mutation)
parse_data_never_raises(format, data) == FALSE

\* Parser.parse_data raises when some field's slice is shorter than its size
parse_data_raises(format, data) ==
    \E f \in 1..Len(format) : Len(FieldPart(format, data, f)) # format[f]

\* struct.unpack of one unsigned integer ('B', 'H', 'I', '<I'), little-endian
unpack_uint(part) ==
    LET RECURSIVE Acc(_)
        Acc(k) == IF k > Len(part) THEN 0 ELSE part[k] * Pow2(8 * (k - 1)) + Acc(k + 1)
    IN  Acc(1)

\* struct.pack of one unsigned integer into `size` bytes, little-endian
pack_uint(value, size) == [k \in 1..size |-> (value \div Pow2(8 * (k - 1))) % 256]

\* HeaderParser.parse_data
HeaderParser_parse_data(data) ==
    [sig       |-> FieldPart(HeaderFormat, data, 1),
     version   |-> unpack_uint(FieldPart(HeaderFormat, data, 2)),
     stuff     |-> FieldPart(HeaderFormat, data, 3),
     res_count |-> unpack_uint(FieldPart(HeaderFormat, data, 4))]

\* HeaderParser.build_bytes
HeaderParser_build_bytes(parts) ==
    parts.sig \o pack_uint(parts.version, 1) \o parts.stuff \o pack_uint(parts.res_count, 4)

\* TOCParser.parse_data: TOCEntry.abs_offset
TOCParser_parse_data(data) == unpack_uint(FieldPart(TOCFormat, data, 1))

\* TOCParser.build_bytes
TOCParser_build_bytes(abs_offset) == pack_uint(abs_offset, 4)

\* ImageHeaderParser.parse_data
ImageHeaderParser_parse_data(data) ==
    [sig            |-> FieldPart(ImageHeaderFormat, data, 1),
     width          |-> unpack_uint(FieldPart(ImageHeaderFormat, data, 2)),
     height         |-> unpack_uint(FieldPart(ImageHeaderFormat, data, 3)),
     row_length     |-> unpack_uint(FieldPart(ImageHeaderFormat, data, 4)),
     bits_per_pixel |-> unpack_uint(FieldPart(ImageHeaderFormat, data, 5)),
     palette_colors |-> unpack_uint(FieldPart(ImageHeaderFormat, data, 6)),
     transparency   |-> unpack_uint(FieldPart(ImageHeaderFormat, data, 7))]

\* ImageHeaderParser.build_bytes
ImageHeaderParser_build_bytes(parts) ==
    parts.sig \o pack_uint(parts.width, 2) \o pack_uint(parts.height, 2)
      \o pack_uint(parts.row_length, 2) \o pack_uint(parts.bits_per_pixel, 2)
      \o pack_uint(parts.palette_colors, 2) \o pack_uint(parts.transparency, 2)

\* PaletteParser.parse_data
PaletteParser_parse_data(data) ==
    [r |-> data[1], g |-> data[2], b |-> data[3], pad |-> data[4]]

\* PaletteParser.build_bytes
PaletteParser_build_bytes(parts) == <<parts.r, parts.g, parts.b, parts.pad>>

(***************************************************************************)
(* Palette image codec.  An interchange image is                           *)
(*   [size |-> <<width, height>>, pixels |-> rows of indices,              *)
(*    palette |-> flat r, g, b list]                                       *)
(***************************************************************************)
\* the PaletteParser.read calls of convert_palette_image_to_png raise when
\* the payload ends inside the palette table
DecodeRaises(info, data) == Len(data) < info.palette_colors * get_total_bytes(PaletteFormat)

\* convert_palette_image_to_png
convert_palette_image_to_png(info, data) ==
    LET psize   == get_total_bytes(PaletteFormat)
        palette == [k \in 1..info.palette_colors |->
                       PaletteParser_parse_data(SubSeq(data, (k - 1) * psize + 1, k * psize))]
        raw_palette == Flatten([k \in 1..info.palette_colors |->
                                   <<palette[k].r, palette[k].g, palette[k].b>>])
        row_data(y) == fh_read(data, info.palette_colors * psize + (y - 1) * info.row_length,
                               info.row_length)
        row(y)  == LET got == UnpackRow(row_data(y), info.bits_per_pixel, info.width)
                   IN  [x \in 1..info.width |-> IF x <= Len(got) THEN got[x] ELSE 0]
    IN  [size    |-> <<info.width, info.height>>,
         pixels  |-> [y \in 1..info.height |-> row(y)],
         palette |-> raw_palette]

\* im.getpalette(): the palette table, zero-filled to 256 colours by the
\* library versions that always report a full table
getpalette(image, full_table) ==
    IF full_table /\ Len(image.palette) < 768
    THEN image.palette \o [k \in 1..(768 - Len(image.palette)) |-> 0]
    ELSE image.palette

\* im.getpixel((x, y)) raises IndexError outside the image (x, y 0-based)
getpixel_raises(image, x, y) == x >= image.size[1] \/ y >= image.size[2]

getpixel(image, x, y) == image.pixels[y + 1][x + 1]

\* the Bitwriter of one row after the adds of the inner loop
RECURSIVE RowBitwriter(_, _, _, _)
RowBitwriter(image, y, n, nbits) ==
    IF n = 0 THEN BitwriterInit
    ELSE BitwriterAdd(RowBitwriter(image, y, n - 1, nbits), getpixel(image, n - 1, y), nbits)

\* bitwriter.build() of row y (0-based), before the slice to row_length
PackedRow(image, y, original_image_info) ==
    BitwriterBuild(RowBitwriter(image, y, original_image_info.width,
                                original_image_info.bits_per_pixel))

\* the row appended to image_data: bitwriter.build()[:row_length]
EncodedRow(image, y, original_image_info) ==
    Take(PackedRow(image, y, original_image_info), original_image_info.row_length)

\* convert_png_image_to_palette_image raises: a pixel outside the image is
\* read, or a packed value does not fit a byte
EncodeRaises(image, original_image_info) ==
    \/ /\ original_image_info.height > 0
       /\ original_image_info.width > 0
       /\ getpixel_raises(image, original_image_info.width - 1,
                          original_image_info.height - 1)
    \/ \E y \in 0..(original_image_info.height - 1) :
          ArrayOverflows(PackedRow(image, y, original_image_info))

\* the ImageHeader built by convert_png_image_to_palette_image
EncodedHeader(image, original_image_info, full_table) ==
    LET raw_palette == Take(getpalette(image, full_table),
                            original_image_info.palette_colors * 3)
    IN  [sig            |-> original_image_info.sig,
         width          |-> image.size[1],
         height         |-> image.size[2],
         row_length     |-> original_image_info.row_length,
         bits_per_pixel |-> original_image_info.bits_per_pixel,
         palette_colors |-> Len(raw_palette) \div 3,
         transparency   |-> original_image_info.transparency]

\* palette_data of convert_png_image_to_palette_image
EncodedPalette(image, original_image_info, full_table) ==
    LET raw_palette == Take(getpalette(image, full_table),
                            original_image_info.palette_colors * 3)
        chunks == chunkwise(3, raw_palette)
    IN  Flatten([k \in 1..Len(chunks) |->
                    PaletteParser_build_bytes(
                        [r |-> chunks[k][1], g |-> chunks[k][2], b |-> chunks[k][3], pad |-> 0])])

\* convert_png_image_to_palette_image: header_data + palette_data + rows
convert_png_image_to_palette_image(image, original_image_info, full_table) ==
    ImageHeaderParser_build_bytes(EncodedHeader(image, original_image_info, full_table))
      \o EncodedPalette(image, original_image_info, full_table)
      \o Flatten([y \in 1..original_image_info.height |->
                     EncodedRow(image, y - 1, original_image_info)])

(***************************************************************************)
(* Bitwriter exercise: one Bitwriter is fed in-range numbers of a fixed    *)
(* width, built, and the result is read back the way the decoder reads a   *)
(* row.                                                                    *)
(***************************************************************************)
ExtraAdds == 2

BitDepths == {1, 2, 4, 8}

\* in-range numbers handed to Bitwriter.add for a given width
SampleIndices(b) == {0, 1, Pow2(b - 1), Pow2(b) - 1, Pow2(b) - 2} \cap (0..(Pow2(b) - 1))

codecIdle ==
    /\ image_info = <<>> /\ image_data = <<>> /\ im = <<>> /\ encoded = <<>>
    /\ cphase = "idle"

fileIdle ==
    /\ stream = <<>> /\ offset = 0 /\ header = <<>> /\ toc = <<>>
    /\ prev_abs_offset = 0 /\ resources = <<>> /\ files = <<>> /\ outfile = <<>>
    /\ command = "none" /\ cursor = 0 /\ runs = 0
    /\ pc = "idle"

bitIdle ==
    /\ bits = 0 /\ added = <<>> /\ bitwriter = BitwriterInit /\ built = <<>>
    /\ unpacked = <<>> /\ bphase = "idle"

InitBits ==
    /\ bits \in BitDepths
    /\ added = <<>>
    /\ bitwriter = BitwriterInit
    /\ built = <<>>
    /\ unpacked = <<>>
    /\ bphase = "adding"
    /\ codecIdle
    /\ fileIdle

\* bitwriter.add(number, bits)
Add ==
    /\ bphase = "adding"
    /\ Len(added) * bits < 8 + ExtraAdds * bits
    /\ \E number \in SampleIndices(bits) :
          /\ bitwriter' = BitwriterAdd(bitwriter, number, bits)
          /\ added' = Append(added, number)
    /\ UNCHANGED <<bits, built, unpacked, bphase>>
    /\ UNCHANGED codecVars
    /\ UNCHANGED fileVars

\* bitwriter.build()
Build ==
    /\ bphase = "adding"
    /\ ~ArrayOverflows(BitwriterBuild(bitwriter))
    /\ built' = BitwriterBuild(bitwriter)
    /\ bphase' = "built"
    /\ UNCHANGED <<bits, added, bitwriter, unpacked>>
    /\ UNCHANGED codecVars
    /\ UNCHANGED fileVars

\* read the built row back, keeping as many indices as were added
Unpack ==
    /\ bphase = "built"
    /\ unpacked' = UnpackRow(built, bits, Len(added))
    /\ bphase' = "unpacked"
    /\ UNCHANGED <<bits, added, bitwriter, built>>
    /\ UNCHANGED codecVars
    /\ UNCHANGED fileVars

NextBits == Add \/ Build \/ Unpack

SpecBits == InitBits /\ [][NextBits]_vars

\* C2: packing in-range indices with Bitwriter.add and Bitwriter.build and
\* unpacking the bytes with bitwalker, chunkwise and bits_to_int, keeping
\* the first `width` values, gives back the indices that were packed.
C2_PackUnpackRoundTrip == bphase = "unpacked" => unpacked = added

\* a row whose last byte is partial and whose indices are not all zero was
\* packed and read back
C2_Witness ==
    /\ bphase = "unpacked"
    /\ (Len(added) * bits) % 8 # 0
    /\ Len(added) * bits > 8
    /\ \E i \in 1..Len(added) : added[i] # 0 /\ added[i] # Pow2(bits) - 1

\* C9: add x k followed by build returns exactly ceil(k * bits / 8) bytes,
\* each in 0..255: build appends a byte only for a partial byte.
C9_BuildLength ==
    bphase = "built" =>
        /\ Len(built) = CeilDiv(Len(added) * bits, 8)
        /\ \A i \in 1..Len(built) : built[i] \in 0..255

(***************************************************************************)
(* Codec exercise: one resource is decoded to an interchange image, the    *)
(* image is possibly edited by an external editor, and it is encoded       *)
(* against the original ImageHeader.                                       *)
(***************************************************************************)
MaxWidth     == 9
MaxHeight    == 2
MaxRowLength == 3
MaxPalette   == 2

\* byte values the packed rows are filled with
RowBytes == <<0, 208, 255, 128>>

\* padding bytes of the palette entries
PadBytes == {0, 7}

\* the palette table of a resource: entry k is (10k+1, 10k+2, 10k+3, pad)
SamplePalette(n, pad) ==
    Flatten([k \in 1..n |-> <<10 * k + 1, 10 * k + 2, 10 * k + 3, pad>>])

\* the packed rows of a resource: n bytes cycling through RowBytes from seed
SampleRows(n, seed) == [k \in 1..n |-> RowBytes[((seed + k) % Len(RowBytes)) + 1]]

SampleHeaders ==
    [sig            : {<<66, 77, 100, 0>>},
     width          : 1..MaxWidth,
     height         : 1..MaxHeight,
     row_length     : 1..MaxRowLength,
     bits_per_pixel : BitDepths,
     palette_colors : 0..MaxPalette,
     transparency   : {0}]

\* the payload lengths tried for a header: whole, one byte short, and ending
\* inside the palette table
PayloadLengths(info) ==
    LET full == 4 * info.palette_colors + info.height * info.row_length
    IN  {full, full - 1} \cup (IF info.palette_colors > 0 THEN {4 * info.palette_colors - 1} ELSE {})

InitCodec ==
    /\ image_info \in SampleHeaders
    /\ \E pad \in PadBytes, seed \in 0..(Len(RowBytes) - 1), n \in PayloadLengths(image_info) :
          image_data = Take(SamplePalette(image_info.palette_colors, pad)
                              \o SampleRows(image_info.height * image_info.row_length, seed), n)
    /\ im = <<>>
    /\ encoded = <<>>
    /\ cphase = "raw"
    /\ bitIdle
    /\ fileIdle

\* write_resource's convert_palette_image_to_png(image_info, image_data)
Decode ==
    /\ cphase = "raw"
    /\ IF DecodeRaises(image_info, image_data)
       THEN /\ cphase' = "failed"
            /\ im' = im
       ELSE /\ cphase' = "decoded"
            /\ im' = convert_palette_image_to_png(image_info, image_data)
    /\ UNCHANGED <<image_info, image_data, encoded>>
    /\ UNCHANGED bitVars
    /\ UNCHANGED fileVars

\* what an external editor may turn an interchange image into
Edits(image) ==
    LET w == image.size[1]
        h == image.size[2]
    IN  \* one pixel repainted
        {[image EXCEPT !.pixels[1][1] = v] : v \in {0, 1, 3} \ {image.pixels[1][1]}}
        \* a column added / removed
        \cup {[image EXCEPT !.size = <<w + 1, h>>,
                            !.pixels = [y \in 1..h |-> Append(image.pixels[y], 0)]]}
        \cup (IF w > 1
              THEN {[image EXCEPT !.size = <<w - 1, h>>,
                                  !.pixels = [y \in 1..h |-> SubSeq(image.pixels[y], 1, w - 1)]]}
              ELSE {})
        \* a row added / removed
        \cup {[image EXCEPT !.size = <<w, h + 1>>,
                            !.pixels = Append(image.pixels, [x \in 1..w |-> 0])]}
        \cup (IF h > 1
              THEN {[image EXCEPT !.size = <<w, h - 1>>,
                                  !.pixels = SubSeq(image.pixels, 1, h - 1)]}
              ELSE {})
        \* a palette colour added / removed
        \cup {[image EXCEPT !.palette = image.palette \o <<200, 201, 202>>]}
        \cup (IF Len(image.palette) >= 3
              THEN {[image EXCEPT !.palette = SubSeq(image.palette, 1, Len(image.palette) - 3)]}
              ELSE {})

\* the interchange file is edited between unpack and repack
Edit ==
    /\ cphase = "decoded"
    /\ im' \in Edits(im)
    /\ cphase' = "edited"
    /\ UNCHANGED <<image_info, image_data, encoded>>
    /\ UNCHANGED bitVars
    /\ UNCHANGED fileVars

\* repack_res_file's convert_png_image_to_palette_image(png_data, image_info)
Encode ==
    /\ cphase \in {"decoded", "edited"}
    /\ IF EncodeRaises(im, image_info)
       THEN /\ cphase' = "failed"
            /\ encoded' = encoded
       ELSE /\ cphase' = IF cphase = "decoded" THEN "reencoded" ELSE "encoded"
            /\ \E full_table \in BOOLEAN :
                  encoded' = convert_png_image_to_palette_image(im, image_info, full_table)
    /\ UNCHANGED <<image_info, image_data, im>>
    /\ UNCHANGED bitVars
    /\ UNCHANGED fileVars

NextCodec == Decode \/ Edit \/ Encode

SpecCodec == InitCodec /\ [][NextCodec]_vars

\* the ImageHeader invariants of a valid container, and a payload of the
\* length the header declares
ValidResource(info, data) ==
    /\ info.bits_per_pixel \in {1, 2, 4, 8}
    /\ info.row_length >= CeilDiv(info.width * info.bits_per_pixel, 8)
    /\ info.palette_colors <= Pow2(info.bits_per_pixel)
    /\ Len(data) = 4 * info.palette_colors + info.height * info.row_length

EncodeReturned == cphase \in {"encoded", "reencoded"}

\* the header, and the bytes after header and palette table, of the encoder's output
EmittedHeader == ImageHeaderParser_parse_data(Take(encoded, 16))
EmittedRows   == Drop(encoded, 16 + 4 * EmittedHeader.palette_colors)

ZeroPadded(row, n) == row \o [k \in 1..(n - Len(row)) |-> 0]

\* C1: decoding a resource of a valid container and encoding the unmodified
\* image against the original ImageHeader reproduces the resource's bytes:
\* header, palette table with padding bytes, and all packed rows.
C1_RoundTripIdentity ==
    (cphase = "reencoded" /\ ValidResource(image_info, image_data))
        => encoded = ImageHeaderParser_build_bytes(image_info) \o image_data

\* C7: every encoded row has exactly row_length bytes, a shorter packed row
\* being zero-padded up to row_length.
C7_RowsHaveRowLength ==
    (EncodeReturned /\ image_info.bits_per_pixel \in {1, 2, 4, 8})
        => EmittedRows = Flatten([y \in 1..image_info.height |->
                             ZeroPadded(Take(PackedRow(im, y - 1, image_info),
                                             image_info.row_length),
                                        image_info.row_length)])

\* C8: the emitted ImageHeader describes the emitted payload: its width,
\* height and palette_colors are those of the image, the output holds
\* palette_colors palette entries and height rows of row_length bytes, and
\* each row packs the width pixel indices of the image's row.
C8_HeaderDescribesPayload ==
    EncodeReturned =>
        /\ EmittedHeader.width = im.size[1]
        /\ EmittedHeader.height = im.size[2]
        /\ EmittedHeader.palette_colors = Len(im.palette) \div 3
        /\ Len(encoded) = 16 + 4 * EmittedHeader.palette_colors
                             + EmittedHeader.height * EmittedHeader.row_length
        /\ \A y \in 1..EmittedHeader.height :
              UnpackRow(SubSeq(EmittedRows, (y - 1) * EmittedHeader.row_length + 1,
                               y * EmittedHeader.row_length),
                        EmittedHeader.bits_per_pixel, EmittedHeader.width) = im.pixels[y]

\* C10: when packing a row produces more than row_length bytes the encode
\* fails; no encoded resource is returned with the row cut to row_length.
C10_OverlongRowIsError ==
    EncodeReturned =>
        \A y \in 0..(image_info.height - 1) :
            Len(PackedRow(im, y, image_info)) <= image_info.row_length

(***************************************************************************)
(* Container processing: parse_res_file, then the command.                 *)
(* A Resource is [image_info, image_data, filename]; filename is the       *)
(* number k of '<output_dir>/<k>.png'.                                     *)
(***************************************************************************)
\* parse_resource raises when parse_data does
parse_resource_raises(data) == parse_data_raises(ImageHeaderFormat, data)

\* parse_resource
parse_resource(data, idx) ==
    [image_info |-> ImageHeaderParser_parse_data(data),
     image_data |-> Drop(data, get_total_bytes(ImageHeaderFormat)),
     filename   |-> idx]

\* resource_len taken to be the TOC entry itself (mutation)
resource_len_is_entry(abs_offset, prev) == abs_offset

\* resource_len = entry.abs_offset - prev_abs_offset
resource_len(abs_offset, prev) == abs_offset - prev

\* header: HeaderParser.read(buffer)
ReadHeader ==
    /\ pc = "start"
    /\ LET all_data == fh_read(stream, offset, get_total_bytes(HeaderFormat))
       IN  /\ offset' = offset + Len(all_data)
           /\ IF read_buffer_raises(HeaderFormat, all_data)
                 \/ parse_data_raises(HeaderFormat, all_data)
              THEN /\ pc' = "failed"
                   /\ header' = header
              ELSE /\ pc' = "parsing"
                   /\ header' = HeaderParser_parse_data(all_data)
    /\ UNCHANGED <<stream, toc, prev_abs_offset, resources, files, outfile, command, cursor, runs>>
    /\ UNCHANGED bitVars
    /\ UNCHANGED codecVars

\* one pass of the loop toc.append(TOCParser.read(buffer))
ReadTOCEntry ==
    /\ pc = "parsing"
    /\ Len(toc) < header.res_count
    /\ LET all_data == fh_read(stream, offset, get_total_bytes(TOCFormat))
       IN  /\ offset' = offset + Len(all_data)
           /\ IF read_buffer_raises(TOCFormat, all_data)
                 \/ parse_data_raises(TOCFormat, all_data)
              THEN /\ pc' = "failed"
                   /\ toc' = toc
              ELSE /\ pc' = pc
                   /\ toc' = Append(toc, TOCParser_parse_data(all_data))
    /\ UNCHANGED <<stream, header, prev_abs_offset, resources, files, outfile, command, cursor, runs>>
    /\ UNCHANGED bitVars
    /\ UNCHANGED codecVars

\* one pass of the loop over enumerate(toc[1:])
ReadResource ==
    /\ pc = "parsing"
    /\ Len(toc) = header.res_count
    /\ Len(resources) < Len(toc) - 1
    /\ LET idx   == Len(resources)
           entry == toc[idx + 2]
           data  == fh_read(stream, offset, resource_len(entry, prev_abs_offset))
       IN  /\ prev_abs_offset' = entry
           /\ offset' = offset + Len(data)
           /\ IF parse_resource_raises(data)
              THEN /\ pc' = "failed"
                   /\ resources' = resources
              ELSE /\ pc' = pc
                   /\ resources' = Append(resources, parse_resource(data, idx))
    /\ UNCHANGED <<stream, header, toc, files, outfile, command, cursor, runs>>
    /\ UNCHANGED bitVars
    /\ UNCHANGED codecVars

\* resources.append(parse_resource(buffer.read(), len(toc))) and the return
ReadLastResource ==
    /\ pc = "parsing"
    /\ Len(toc) = header.res_count
    /\ Len(resources) >= Len(toc) - 1
    /\ LET data == fh_read(stream, offset, -1)
       IN  /\ offset' = offset + Len(data)
           /\ IF parse_resource_raises(data)
              THEN /\ pc' = "failed"
                   /\ resources' = resources
              ELSE /\ pc' = "parsed"
                   /\ resources' = Append(resources, parse_resource(data, Len(toc)))
    /\ UNCHANGED <<stream, header, toc, prev_abs_offset, files, outfile, command, cursor, runs>>
    /\ UNCHANGED bitVars
    /\ UNCHANGED codecVars

(***************************************************************************)
(* Parsing exercise: a header declaring res_count, TOC entries drawn from  *)
(* a grid of offsets, position-tagged resource data, and the file cut      *)
(* short at several places.                                                *)
(***************************************************************************)
MaxRes         == 3
DataLength     == 60
OffsetStep     == 9
MaxOffsetSteps == 7
CutMiddle      == 35

SampleOffsets == {k * OffsetStep : k \in 0..MaxOffsetSteps}

\* the 20 header bytes of a file declaring n resources
SampleHeaderBytes(n) ==
    <<72, 77, 82, 69, 83>> \o <<2>> \o [k \in 1..10 |-> 240 + k] \o pack_uint(n, 4)

\* resource data whose byte at position j (0-based) is j + 1
TaggedData(n) == [j \in 1..n |-> j % 256]

\* how many bytes the file may have lost at its end
SampleCuts(n) == {0, 1, CutMiddle, DataLength, DataLength + 1, DataLength + 4 * n + 1}

InitParse ==
    /\ \E n \in 0..MaxRes :
         \E entries \in [1..n -> SampleOffsets], cut \in SampleCuts(n) :
            LET whole == SampleHeaderBytes(n)
                           \o Flatten([i \in 1..n |-> pack_uint(entries[i], 4)])
                           \o TaggedData(DataLength)
            IN  stream = Take(whole, Len(whole) - cut)
    /\ offset = 0
    /\ header = <<>>
    /\ toc = <<>>
    /\ prev_abs_offset = 0
    /\ resources = <<>>
    /\ files = <<>>
    /\ outfile = <<>>
    /\ command = "none"
    /\ cursor = 0
    /\ runs = 1
    /\ pc = "start"
    /\ bitIdle
    /\ codecIdle

NextParse == ReadHeader \/ ReadTOCEntry \/ ReadResource \/ ReadLastResource

SpecParse == InitParse /\ [][NextParse]_vars

\* the bytes a Resource was built from
ResourceBytes(resource) ==
    ImageHeaderParser_build_bytes(resource.image_info) \o resource.image_data

\* what the file itself declares, read off the stream
DeclaredCount == unpack_uint(SubSeq(stream, 17, 20))
DeclaredEntry(i) == unpack_uint(SubSeq(stream, 20 + 4 * (i - 1) + 1, 20 + 4 * i))
TocEnd == 20 + 4 * DeclaredCount

\* the bytes after the TOC
ResourceData == Drop(stream, TocEnd)

\* the TOC entries are non-decreasing and lie within the stream
TocMonotoneWithinStream ==
    /\ Len(stream) >= TocEnd
    /\ \A i \in 1..(DeclaredCount - 1) : DeclaredEntry(i) <= DeclaredEntry(i + 1)
    /\ \A i \in 1..DeclaredCount : DeclaredEntry(i) <= Len(ResourceData)

DeclaredSpan(k) == DeclaredEntry(k + 1) - (IF k = 1 THEN 0 ELSE DeclaredEntry(k))

\* the stream ends before the Header, before the res_count TOC entries, or
\* before the end of a span the TOC declares
Truncated ==
    \/ Len(stream) < 20
    \/ Len(stream) < TocEnd
    \/ \E k \in 1..(DeclaredCount - 1) :
          /\ \A j \in 1..k : DeclaredSpan(j) >= 0
          /\ DeclaredEntry(k + 1) > Len(ResourceData)

\* C4: parse_res_file fails whenever the stream is truncated, and what it
\* returns has res_count TOC entries and no resource shorter than its span.
C4_TruncationIsError ==
    /\ Truncated => pc # "parsed"
    /\ pc = "parsed" =>
          /\ Len(toc) = header.res_count
          /\ Len(toc) = DeclaredCount
          /\ \A k \in 1..(Len(toc) - 1) :
                DeclaredSpan(k) >= 0 => Len(ResourceBytes(resources[k])) = DeclaredSpan(k)

\* the stream ended inside a declared span, a resource was built from the
\* bytes that were left, and the parse then failed
C4_Witness ==
    /\ pc = "failed"
    /\ Len(stream) >= 20
    /\ Len(stream) >= TocEnd
    /\ Truncated
    /\ \E k \in 1..Len(resources) :
          /\ k <= DeclaredCount - 1
          /\ DeclaredSpan(k) >= 0
          /\ Len(ResourceBytes(resources[k])) < DeclaredSpan(k)

\* C5: the output identifiers of the N >= 1 resources, in container order,
\* are 0, 1, ..., N-1.
C5_SequentialNumbering ==
    (pc = "parsed" /\ header.res_count >= 1) =>
        \A k \in 1..Len(resources) : resources[k].filename = k - 1

(***************************************************************************)
(* The tool: the script is started on a well-formed container with one of  *)
(* its three commands; between two starts an editor may change one of the  *)
(* unpacked images.                                                        *)
(***************************************************************************)
MaxToolRes == 2
MaxRuns    == 2

Commands == {"unpack", "repack", "justdoit"}

\* the resources the sample containers are assembled from
ToolHeaders ==
    {h \in SampleHeaders :
        /\ h.width = 2
        /\ h.height = 1
        /\ <<h.bits_per_pixel, h.row_length, h.palette_colors>>
              \in {<<2, 1, 1>>, <<2, 2, 1>>, <<1, 1, 0>>}}

ToolResourceBytes(h) ==
    h.sig \o pack_uint(h.width, 2) \o pack_uint(h.height, 2) \o pack_uint(h.row_length, 2)
      \o pack_uint(h.bits_per_pixel, 2) \o pack_uint(h.palette_colors, 2)
      \o pack_uint(h.transparency, 2)
      \o SamplePalette(h.palette_colors, 0) \o SampleRows(h.height * h.row_length, 1)

\* TOC of a container holding the given resource byte strings: entry i + 1
\* is where resource i ends, counted from the end of the TOC
RECURSIVE ToolToc(_, _)
ToolToc(blobs, n) ==
    IF n <= 1 THEN <<>> ELSE Append(ToolToc(blobs, n - 1), Len(Flatten(SubSeq(blobs, 1, n - 1))))

InitTool ==
    /\ \E n \in 1..MaxToolRes :
         \E hs \in [1..n -> ToolHeaders], e0 \in {0, 5} :
            LET blobs == [i \in 1..n |-> ToolResourceBytes(hs[i])]
                tocs  == <<e0>> \o ToolToc(blobs, n)
            IN  stream = SampleHeaderBytes(n)
                           \o Flatten([i \in 1..n |-> pack_uint(tocs[i], 4)])
                           \o Flatten(blobs)
    /\ offset = 0
    /\ header = <<>>
    /\ toc = <<>>
    /\ prev_abs_offset = 0
    /\ resources = <<>>
    /\ files = <<>>
    /\ outfile = <<>>
    /\ command \in Commands
    /\ cursor = 0
    /\ runs = 1
    /\ pc = "start"
    /\ bitIdle
    /\ codecIdle

\* one pass of the unpack loop: write_resource(resource...)
WriteResource ==
    /\ pc = "parsed"
    /\ command \in {"unpack", "justdoit"}
    /\ cursor < Len(resources)
    /\ LET resource == resources[cursor + 1]
       IN  IF DecodeRaises(resource.image_info, resource.image_data)
           THEN /\ pc' = "failed"
                /\ UNCHANGED <<files, cursor>>
           ELSE /\ files' = [k \in DOMAIN files \cup {resource.filename} |->
                                IF k = resource.filename
                                THEN convert_palette_image_to_png(resource.image_info,
                                                                  resource.image_data)
                                ELSE files[k]]
                /\ IF cursor + 1 < Len(resources)
                   THEN cursor' = cursor + 1 /\ pc' = pc
                   ELSE cursor' = 0 /\ pc' = IF command = "unpack" THEN "unpacked" ELSE "written"
    /\ UNCHANGED <<stream, offset, header, toc, prev_abs_offset, resources, outfile, command, runs>>
    /\ UNCHANGED bitVars
    /\ UNCHANGED codecVars

\* the bytes of the TOC entries built back with the offsets taken big-endian (mutation)
TOCParser_build_all_big_endian(entries) ==
    Flatten([i \in 1..Len(entries) |->
                [k \in 1..4 |-> (entries[i] \div Pow2(8 * (4 - k))) % 256]])

\* the loop outfh.write(TOCParser.build_bytes(toc)) of repack_res_file
TOCParser_build_all(entries) ==
    Flatten([i \in 1..Len(entries) |-> TOCParser_build_bytes(entries[i])])

\* repack_res_file: the output is opened, Header and TOC are written
RepackStart ==
    /\ \/ pc = "parsed" /\ command = "repack"
       \/ pc = "written"
    /\ outfile' = HeaderParser_build_bytes(header) \o TOCParser_build_all(toc)
    /\ cursor' = 0
    /\ pc' = "repack"
    /\ UNCHANGED <<stream, offset, header, toc, prev_abs_offset, resources, files, command, runs>>
    /\ UNCHANGED bitVars
    /\ UNCHANGED codecVars

\* one pass of the loop over parsed.resources in repack_res_file
RepackResource ==
    /\ pc = "repack"
    /\ cursor < Len(resources)
    /\ LET resource == resources[cursor + 1]
       IN  IF resource.filename \notin DOMAIN files
           THEN \* open(resource.filename, 'rb') raises
                /\ pc' = "failed"
                /\ UNCHANGED <<outfile, cursor>>
           ELSE IF EncodeRaises(files[resource.filename], resource.image_info)
           THEN /\ pc' = "failed"
                /\ UNCHANGED <<outfile, cursor>>
           ELSE /\ \E full_table \in BOOLEAN :
                      outfile' = outfile \o convert_png_image_to_palette_image(
                                     files[resource.filename], resource.image_info, full_table)
                /\ cursor' = cursor + 1
                /\ pc' = IF cursor + 1 < Len(resources) THEN pc ELSE "repacked"
    /\ UNCHANGED <<stream, offset, header, toc, prev_abs_offset, resources, files, command, runs>>
    /\ UNCHANGED bitVars
    /\ UNCHANGED codecVars

\* an editor changes one unpacked image while the script is not running
EditFile ==
    /\ pc \in {"unpacked", "repacked"}
    /\ runs < MaxRuns
    /\ \E k \in DOMAIN files :
          \E edited \in Edits(files[k]) : files' = [files EXCEPT ![k] = edited]
    /\ pc' = "edited"
    /\ UNCHANGED <<stream, offset, header, toc, prev_abs_offset, resources, outfile,
                   command, cursor, runs>>
    /\ UNCHANGED bitVars
    /\ UNCHANGED codecVars

\* the script is started again on the same container
Rerun ==
    /\ pc \in {"unpacked", "repacked", "edited", "failed"}
    /\ runs < MaxRuns
    /\ runs' = runs + 1
    /\ command' \in Commands
    /\ offset' = 0
    /\ header' = <<>>
    /\ toc' = <<>>
    /\ prev_abs_offset' = 0
    /\ resources' = <<>>
    /\ cursor' = 0
    /\ pc' = "start"
    /\ UNCHANGED <<stream, files, outfile>>
    /\ UNCHANGED bitVars
    /\ UNCHANGED codecVars

NextTool ==
    \/ ReadHeader \/ ReadTOCEntry \/ ReadResource \/ ReadLastResource
    \/ WriteResource \/ RepackStart \/ RepackResource
    \/ EditFile \/ Rerun

SpecTool == InitTool /\ [][NextTool]_vars

\* the encodings of the first n resources, for every way the library may
\* report the palettes
RepackedUpTo(n) ==
    {Flatten([k \in 1..n |->
                 convert_png_image_to_palette_image(files[resources[k].filename],
                                                    resources[k].image_info, ft[k])]) :
        ft \in [1..n -> BOOLEAN]}

\* C6: the file written by repack_res_file starts with the input's 20
\* Header bytes and 4 * res_count TOC bytes, unchanged and not recomputed,
\* followed by the re-encoded resources in resource order.
C6_RepackKeepsHeaderAndToc ==
    pc \in {"repack", "repacked"} =>
        /\ Take(outfile, TocEnd) = Take(stream, TocEnd)
        /\ Drop(outfile, TocEnd) \in
              RepackedUpTo(IF pc = "repacked" THEN Len(resources) ELSE cursor)

\* a container of two resources was repacked after an edit that changed the
\* length of the first resource, with a non-zero first TOC entry
C6_Witness ==
    /\ pc = "repacked"
    /\ Len(resources) = 2
    /\ toc[1] # 0
    /\ Len(outfile) # Len(stream)

====
